---- MODULE Spec2Model ----
(***************************************************************************)
(* Model of hangulize's HRE Pattern (src/hangulize/var.go): the variable   *)
(* expander, the scan loop of Pattern.Find and the stitching loop of       *)
(* Pattern.Replace.  Strings are sequences of one-character strings and    *)
(* positions are Go's 0-based offsets.                                     *)
(***************************************************************************)
EXTENDS Integers, Sequences, FiniteSets, TLC

\* ---------------------------------------------------------------- bounds
MaxLen == 3
MaxIter == 5
MaxExprLen == 6

\* ---------------------------------------------------------------- strings
A == "a"
B == "b"
\* The character Find writes over the visited prefix of the word (line 141).
Mask == "."
\* The regexp atom `.`: any character.
ANY == "any"

Letters == {A, B}

\* Go's s[a:b].
Slice(s, a, b) == SubSeq(s, a + 1, b)

\* strings.Repeat(c, k)
Repeat(c, k) == [i \in 1..k |-> c]

\* Go's m[k] on a 0-based slice.
At(m, k) == m[k + 1]

RECURSIVE Concat(_)
Concat(ss) == IF ss = <<>> THEN <<>> ELSE Head(ss) \o Concat(Tail(ss))

Words == UNION {[1..k -> Letters] : k \in 0..MaxLen}

\* ---------------------------------------------------------------- expandVars
\* The characters of an HRE expression that matter to reVar, `<(.+?)>`.
ExprChars == {"<", ">", "v"}

Exprs == UNION {[1..k -> ExprChars] : k \in 0..MaxExprLen}

\* The variable tables: none, the spec's v = ["a", "bb"], and a value that
\* needs escaping.
NoVars == <<>>
VarTables ==
    {NoVars,
     [name \in {<<"v">>} |-> << <<"a">>, <<"b", "b">> >>],
     [name \in {<<"v">>} |-> << <<".">>, <<"a">> >>]}

RECURSIVE TrimLeft(_)
TrimLeft(s) ==
    IF s # <<>> /\ Head(s) \in {"<", ">"} THEN TrimLeft(Tail(s)) ELSE s

RECURSIVE TrimRight(_)
TrimRight(s) ==
    IF s # <<>> /\ s[Len(s)] \in {"<", ">"}
    THEN TrimRight(SubSeq(s, 1, Len(s) - 1)) ELSE s

\* strings.Trim(expr, `<>`)
Trim(s) == TrimRight(TrimLeft(s))

\* getVar: the name between the brackets and its values, none for a name
\* the table does not hold.
getVar(varExpr, vtab) ==
    IF Trim(varExpr) \in DOMAIN vtab THEN vtab[Trim(varExpr)] ELSE <<>>

\* regexp.QuoteMeta
MetaChars == {".", "+", "*", "?", "(", ")", "|", "[", "]", "{", "}", "^", "$"}
QuoteChar(c) == IF c \in MetaChars THEN <<"\\", c>> ELSE <<c>>
QuoteMeta(val) == Concat([i \in DOMAIN val |-> QuoteChar(val[i])])

\* strings.Join(vals, `|`)
RECURSIVE Join(_)
Join(vals) ==
    IF vals = <<>> THEN <<>>
    ELSE IF Len(vals) = 1 THEN Head(vals)
    ELSE Head(vals) \o <<"|">> \o Join(Tail(vals))

\* The callback of ReplaceAllStringFunc: `(?:` + a|b|c + `)`.
Alternation(vals) ==
    <<"(", "?", ":">> \o Join([i \in DOMAIN vals |-> QuoteMeta(vals[i])])
                      \o <<")">>

\* Where the lazy `.+?` of reVar stops for a `<` at i: the first `>` at or
\* after from (1-based), 0 when there is none.
RECURSIVE CloseFrom(_, _)
CloseFrom(expr, from) ==
    IF from > Len(expr) THEN 0
    ELSE IF expr[from] = ">" THEN from
    ELSE CloseFrom(expr, from + 1)

\* reVar.ReplaceAllStringFunc(expr, ...) from position i on.
RECURSIVE ReplaceFrom(_, _, _)
RECURSIVE ReplaceAt(_, _, _, _)
ReplaceAt(expr, vtab, i, close) ==
    IF expr[i] = "<" /\ close # 0
    THEN Alternation(getVar(SubSeq(expr, i, close), vtab))
         \o ReplaceFrom(expr, vtab, close + 1)
    ELSE <<expr[i]>> \o ReplaceFrom(expr, vtab, i + 1)

ReplaceFrom(expr, vtab, i) ==
    IF i > Len(expr) THEN <<>>
    ELSE ReplaceAt(expr, vtab, i, CloseFrom(expr, i + 2))

\* What expandVars returns: the rewritten expression, and nothing else.
expandVars(expr, vtab) == << ReplaceFrom(expr, vtab, 1) >>

\* ---------------------------------------------------------------- regexps
\* A compiled regexp of the shape Find expects, (edge)(look)abc(look)(edge):
\* content is an ordered alternation of atom sequences, ncap the number of
\* capture groups of the content, and a regexp that is not wrapped has no
\* bracketing group at all.
NoLook == [kind |-> "none", body |-> <<>>]
Lit(body) == [kind |-> "lit", body |-> body]
Opt(body) == [kind |-> "opt", body |-> body]
Star == [kind |-> "star", body |-> <<>>]

Wrapped(eL, lL, c, k, lR, eR) ==
    [wrapped |-> TRUE, edgeL |-> eL, lookL |-> lL, content |-> c, ncap |-> k,
     lookR |-> lR, edgeR |-> eR]

Bare(c, k) ==
    [wrapped |-> FALSE, edgeL |-> "", lookL |-> NoLook, content |-> c,
     ncap |-> k, lookR |-> NoLook, edgeR |-> ""]

AtomMatches(atom, ch) == atom = ANY \/ atom = ch

SeqMatchesAt(body, text, pos) ==
    /\ pos + Len(body) <= Len(text)
    /\ \A k \in 1..Len(body) : AtomMatches(body[k], text[pos + k])

\* The ways a lookaround group matches at pos, in the engine's order of
\* preference: <<end, participated>>.
LookEnds(look, text, pos) ==
    CASE look.kind = "none" -> << <<pos, TRUE>> >>
      [] look.kind = "lit" ->
            IF SeqMatchesAt(look.body, text, pos)
            THEN << <<pos + Len(look.body), TRUE>> >> ELSE <<>>
      [] look.kind = "opt" ->
            (IF SeqMatchesAt(look.body, text, pos)
             THEN << <<pos + Len(look.body), TRUE>> >> ELSE <<>>)
            \o << <<pos, FALSE>> >>
      [] look.kind = "star" ->
            [k \in 1..(Len(text) - pos + 1) |-> <<Len(text) - (k - 1), TRUE>>]

\* The ends of the content's alternatives that match at pos, first
\* alternative first.
ContentEnds(content, text, pos) ==
    LET hit == SelectSeq(content, LAMBDA alt : SeqMatchesAt(alt, text, pos))
    IN  [j \in DOMAIN hit |-> pos + Len(hit[j])]

\* The matches that take look-behind end l and content end c, one per way
\* rs the look-ahead group matches after the content.
PerContent(i, l, c, rs) ==
    [k \in DOMAIN rs |-> [s |-> i, l |-> l, c |-> c, r |-> rs[k]]]

\* The matches that take look-behind end l, over the content ends cs.
PerLook(re, text, i, l, cs) ==
    Concat([j \in DOMAIN cs |->
              PerContent(i, l, cs[j], LookEnds(re.lookR, text, cs[j]))])

\* The trailing edge: $ holds only at the end of the text.
EdgeOk(re, text, cd) == re.edgeR = "$" => cd.r[1] = Len(text)

PerStart(re, text, i, ls) ==
    Concat([j \in DOMAIN ls |->
              PerLook(re, text, i, ls[j],
                      ContentEnds(re.content, text, ls[j][1]))])

\* Every way the regexp matches starting at i, in backtracking order.
CandidatesAt(re, text, i) ==
    IF re.edgeL = "^" /\ i # 0 THEN <<>>
    ELSE SelectSeq(PerStart(re, text, i, LookEnds(re.lookL, text, i)),
                   LAMBDA cd : EdgeOk(re, text, cd))

NoMatch == [s |-> -1, l |-> <<-1, FALSE>>, c |-> -1, r |-> <<-1, FALSE>>]

\* The leftmost match, and at that start the first in backtracking order.
RECURSIVE FirstFrom(_, _, _)
RECURSIVE FirstOr(_, _, _, _)
FirstOr(cs, re, text, i) ==
    IF cs # <<>> THEN Head(cs) ELSE FirstFrom(re, text, i + 1)

FirstFrom(re, text, i) ==
    IF i > Len(text) THEN NoMatch
    ELSE FirstOr(CandidatesAt(re, text, i), re, text, i)

FirstMatch(re, text) == FirstFrom(re, text, 0)

Span(from, end) == IF end[2] THEN <<from, end[1]>> ELSE <<-1, -1>>

\* The index array regexp reports for a match: the whole match, then each
\* group's start and end, -1 for a group that did not participate.
ToIndex(re, cd) ==
    LET whole == <<cd.s, cd.r[1]>>
        inner == IF re.ncap = 1 THEN <<cd.l[1], cd.c>> ELSE <<>>
    IN  IF re.wrapped
        THEN whole \o <<cd.s, cd.s>> \o Span(cd.s, cd.l) \o inner
                   \o Span(cd.c, cd.r) \o <<cd.r[1], cd.r[1]>>
        ELSE whole \o inner

IndexOf(re, cd) == IF cd = NoMatch THEN <<>> ELSE ToIndex(re, cd)

FindStringSubmatchIndex(re, text) == IndexOf(re, FirstMatch(re, text))

\* ---------------------------------------------------------------- patterns
Never == Bare(<<>>, 0)

Contents ==
    { << <<A>> >>, << <<B>> >>, << <<A, B>> >>, << <<ANY>> >>,
      << <<A, A>>, <<ANY, B>> >>, << <<A>>, <<B, B>> >>,
      << <<B>>, <<>> >>, << <<A, A>>, <<ANY>> >> }

LooksL == {NoLook, Lit(<<A>>), Opt(<<A>>), Star}
LooksR == {NoLook, Lit(<<B>>), Opt(<<B>>), Star}
Negs == {Never, Bare(<< <<B>> >>, 0), Bare(<< <<A, B>> >>, 0)}

\* How many of a pattern's optional features are in use.
Weight(pt) ==
    (IF pt.re.edgeL # "" THEN 1 ELSE 0) + (IF pt.re.edgeR # "" THEN 1 ELSE 0)
    + (IF pt.re.lookL # NoLook THEN 1 ELSE 0)
    + (IF pt.re.lookR # NoLook THEN 1 ELSE 0)
    + pt.re.ncap + (IF pt.neg # Never THEN 1 ELSE 0)

\* The compiled Patterns Find is run on: the wrapped ones have the shape
\* NewPattern builds, with at most two optional features each; the bare
\* ones lack the bracketing groups, the case Find's own check is there for.
Patterns ==
    {pt \in {[re |-> Wrapped(eL, lL, c, k, lR, eR), neg |-> ng] :
                eL \in {"", "^"}, lL \in LooksL, c \in Contents, k \in 0..1,
                lR \in LooksR, eR \in {"", "$"}, ng \in Negs} :
        Weight(pt) <= 2}
    \cup {[re |-> Bare(c, k), neg |-> Never] : c \in Contents, k \in 0..1}

\* ---------------------------------------------------------------- Find
\* A faulty loop condition that takes 0 for unbounded as well.
LoopCondNonPositive(n, len) == n <= 0 \/ len < n

\* for n < 0 || len(matches) < n
LoopCond(n, len) == n < 0 \/ len < n

\* erased := strings.Repeat(".", offset) + word[offset:]
Erased(word, offset) == Repeat(Mask, offset) \o Slice(word, offset, Len(word))

\* A faulty check that lets a match with one group through.
TooFewGroupsBelowFour(m) == Len(m) < 4

\* if len(m) < 10 { panic(...) }
TooFewGroups(m) == Len(m) < 10

\* A faulty start that reads the look-behind group's start, m[4].
SemStartGroupStart(m) == IF At(m, 4) = -1 THEN At(m, 0) ELSE At(m, 4)

\* start := m[5]; if start == -1 { start = m[0] }
SemStart(m) == IF At(m, 5) = -1 THEN At(m, 0) ELSE At(m, 5)

\* stop := m[len(m)-4]; if stop == -1 { stop = m[1] }
SemStop(m) == IF At(m, Len(m) - 4) = -1 THEN At(m, 1) ELSE At(m, Len(m) - 4)

\* if len(negM) == 0 { offset = stop } else { offset = m[0] + negM[1] }
Shift(m, negM, stop) == IF Len(negM) = 0 THEN stop ELSE At(m, 0) + At(negM, 1)

\* A faulty test that accepts every candidate.
AcceptsAlways(negM) == TRUE

\* if len(negM) == 0: "If no negative match, this match is successful."
Accepts(negM) == Len(negM) = 0

NoIter ==
    [kind |-> "none", at |-> 0, m |-> <<>>, highlight |-> <<>>,
     negM |-> <<>>, match |-> <<>>, next |-> 0]

\* "Test highlight with p.neg" to the end of the loop body.
Judge(offset, m, start, stop, highlight, negM) ==
    [kind |-> IF Accepts(negM) THEN "accept" ELSE "reject",
     at |-> offset, m |-> m, highlight |-> highlight, negM |-> negM,
     match |-> <<start, stop>> \o Slice(m, 6, Len(m) - 4),
     next |-> Shift(m, negM, stop)]

\* negM := p.neg.FindStringSubmatchIndex(highlight)
Highlight(pt, offset, m, start, stop, highlight) ==
    Judge(offset, m, start, stop, highlight,
          FindStringSubmatchIndex(pt.neg, highlight))

\* The loop body from the result m of the positive regexp on.
OnMatch(pt, erased, offset, m) ==
    IF Len(m) = 0 \/ At(m, 1) - At(m, 0) = 0
    THEN [NoIter EXCEPT !.kind = "break", !.at = offset, !.m = m]
    ELSE IF TooFewGroups(m)
    THEN [NoIter EXCEPT !.kind = "panic", !.at = offset, !.m = m]
    ELSE IF Len(m) < 10  \* m[5], m[6:len(m)-4]: index out of range
    THEN [NoIter EXCEPT !.kind = "range", !.at = offset, !.m = m]
    ELSE Highlight(pt, offset, m, SemStart(m), SemStop(m),
                   Slice(erased, At(m, 0), At(m, 1)))

\* m := p.re.FindStringSubmatchIndex(erased)
OnErased(pt, erased, offset) ==
    OnMatch(pt, erased, offset, FindStringSubmatchIndex(pt.re, erased))

\* One pass through the body of Find's loop with the cursor at offset.
FindBody(pt, word, offset) == OnErased(pt, Erased(word, offset), offset)

\* ---------------------------------------------------------------- state
VARIABLES word, p, n, pc, offset, matches, iters, last, seen, raws,
          roffset, ri, buf, stdout, result,
          expr, vtab, vpc, ret, reExpr, usedVars

scanVars == <<word, p, n, pc, offset, matches, iters, last, seen, raws,
              roffset, ri, buf, stdout, result>>

compileVars == <<expr, vtab, vpc, ret, reExpr, usedVars>>

vars == <<scanVars, compileVars>>

\* The value of a variable that nothing has been assigned to.
Absent == "absent"

Bounds == {-1, 0, 1, 2}

ScanInit(ws, ps, ns, at) ==
    /\ word \in ws
    /\ p \in ps
    /\ n \in ns
    /\ pc = at
    /\ offset = 0
    /\ matches = <<>>
    /\ iters = 0
    /\ last = NoIter
    /\ seen = {}
    /\ raws = <<>>
    /\ roffset = 0
    /\ ri = 1
    /\ buf = <<>>
    /\ stdout = <<>>
    /\ result = <<>>

CompileInit(es, ts, at) ==
    /\ expr \in es
    /\ vtab \in ts
    /\ vpc = at
    /\ ret = <<>>
    /\ reExpr = Absent
    /\ usedVars = Absent

\* Replace(word, [identityRule], n) has been called on a compiled Pattern
\* and has called Find.
Init ==
    /\ ScanInit(Words, Patterns, Bounds, "find")
    /\ CompileInit({<<>>}, {NoVars}, "idle")

Iterate(it) ==
    /\ it.kind \in {"accept", "reject"}
    /\ matches' = IF it.kind = "accept"
                  THEN Append(matches, it.match) ELSE matches
    /\ raws' = IF it.kind = "accept" THEN Append(raws, it) ELSE raws
    /\ offset' = it.next
    /\ last' = it

\* An iteration of Find's loop that reaches "Shift the cursor".
FindIterate ==
    /\ pc = "find"
    /\ LoopCond(n, Len(matches))
    /\ iters < MaxIter
    /\ Iterate(FindBody(p, word, offset))
    /\ iters' = iters + 1
    /\ seen' = seen \cup {<<offset, Len(matches)>>}
    /\ UNCHANGED <<word, p, n, pc, roffset, ri, buf, stdout, result>>
    /\ UNCHANGED compileVars

Return(it) ==
    IF LoopCond(n, Len(matches))
    THEN it.kind = "break" /\ last' = it
    ELSE last' = NoIter

\* The loop ends (its condition fails, or break) and Find returns matches.
FindReturn ==
    /\ pc = "find"
    /\ Return(FindBody(p, word, offset))
    /\ pc' = "replace"
    /\ UNCHANGED <<word, p, n, offset, matches, iters, seen, raws,
                   roffset, ri, buf, stdout, result>>
    /\ UNCHANGED compileVars

Panic(it) ==
    /\ it.kind \in {"panic", "range"}
    /\ last' = it
    /\ pc' = IF it.kind = "panic" THEN "findpanic" ELSE "rangepanic"

\* panic(fmt.Errorf("unexpected submatches: %v", m)), or the runtime's
\* index-out-of-range panic on m.
FindPanic ==
    /\ pc = "find"
    /\ LoopCond(n, Len(matches))
    /\ Panic(FindBody(p, word, offset))
    /\ UNCHANGED <<word, p, n, offset, matches, iters, seen, raws,
                   roffset, ri, buf, stdout, result>>
    /\ UNCHANGED compileVars

\* rp.Interpolate(p, word, m) of the rule that reproduces the matched text.
Interpolate(w, mt) == Slice(w, mt[1], mt[2])

\* One pass through the body of Replace's range loop.
ReplaceStep ==
    /\ pc = "replace"
    /\ ri <= Len(matches)
    /\ LET start == matches[ri][1]
           stop == matches[ri][2]
       IN  IF roffset > start
           THEN \* word[offset:start]: slice bounds out of range
                /\ pc' = "slicepanic"
                /\ UNCHANGED <<roffset, ri, buf, stdout>>
           ELSE /\ stdout' = Append(stdout, <<start, stop>>)
                /\ IF start > stop
                   THEN /\ pc' = "slicepanic"
                        /\ buf' = buf \o Slice(word, roffset, start)
                        /\ UNCHANGED <<roffset, ri>>
                   ELSE /\ buf' = buf \o Slice(word, roffset, start)
                                      \o Interpolate(word, matches[ri])
                        /\ roffset' = stop
                        /\ ri' = ri + 1
                        /\ pc' = pc
    /\ UNCHANGED <<word, p, n, offset, matches, iters, last, seen, raws,
                   result>>
    /\ UNCHANGED compileVars

\* buf.WriteString(word[offset:]); return []string{buf.String()}
ReplaceReturn ==
    /\ pc = "replace"
    /\ ri > Len(matches)
    /\ buf' = buf \o Slice(word, roffset, Len(word))
    /\ result' = <<buf'>>
    /\ pc' = "done"
    /\ UNCHANGED <<word, p, n, offset, matches, iters, last, seen, raws,
                   roffset, ri, stdout>>
    /\ UNCHANGED compileVars

Next ==
    \/ FindIterate
    \/ FindReturn
    \/ FindPanic
    \/ ReplaceStep
    \/ ReplaceReturn

Spec == Init /\ [][Next]_vars

\* ---------------------------------------------------------------- NewPattern
\* NewPattern(expr, macros, vars) is about to expand the variables.
InitCompile ==
    /\ ScanInit({<<>>}, {[re |-> Never, neg |-> Never]}, {0}, "idle")
    /\ CompileInit(Exprs, VarTables, "start")

\* The call expandVars(reExpr, vars) and what it returns.
ExpandVarsCall ==
    /\ vpc = "start"
    /\ ret' = expandVars(expr, vtab)
    /\ vpc' = "expanded"
    /\ UNCHANGED <<expr, vtab, reExpr, usedVars>>
    /\ UNCHANGED scanVars

\* reExpr, usedVars := expandVars(reExpr, vars) ... &Pattern{..., usedVars}:
\* the second name is bound to the second value returned, if there is one.
NewPatternStore ==
    /\ vpc = "expanded"
    /\ reExpr' = ret[1]
    /\ usedVars' = IF Len(ret) >= 2 THEN ret[2] ELSE Absent
    /\ vpc' = "compiled"
    /\ UNCHANGED <<expr, vtab, ret>>
    /\ UNCHANGED scanVars

NextCompile ==
    \/ ExpandVarsCall
    \/ NewPatternStore

SpecCompile == InitCompile /\ [][NextCompile]_vars

\* ---------------------------------------------------------------- claims
\* Find has returned its match list to Replace.
FindReturned == pc \in {"replace", "slicepanic", "done"}

\* The loop is about to start an iteration it has started before: same
\* cursor, and the same number of matches when the bound counts them.
Revisits ==
    \E s \in seen : s[1] = offset /\ (n < 0 \/ s[2] = Len(matches))

\* C1: the scan loop of Find terminates for every word, pattern and bound.
\* An iteration is a function of the cursor (and of the number of matches
\* collected when n >= 0), so the loop ends exactly when it never starts an
\* iteration twice from the same configuration.
C1_FindTerminates == (pc = "find" /\ LoopCond(n, Len(matches))) => ~Revisits

\* C2: the matches an unbounded Find returns are ordered and do not overlap:
\* s1 <= e1 <= s2 <= e2 for consecutive matches.
C2_OrderedNonOverlapping ==
    (FindReturned /\ n < 0) =>
        \A i \in 1..(Len(matches) - 1) :
            /\ matches[i][1] <= matches[i][2]
            /\ matches[i][2] <= matches[i + 1][1]
            /\ matches[i + 1][1] <= matches[i + 1][2]

\* Some substring of the highlight matches the negative regexp.
NegHit(neg, hl) ==
    \E i \in 0..Len(hl) : \E j \in DOMAIN neg.content :
        SeqMatchesAt(neg.content[j], hl, i)

\* C3: an iteration appends its candidate to the match list exactly when the
\* negative matcher finds nothing in the candidate's highlight; a candidate
\* whose highlight holds a negative match leaves the list as it was.
C3_NegativeVeto ==
    [][(pc = "find" /\ iters' = iters + 1) =>
          IF NegHit(p.neg, last'.highlight)
          THEN matches' = matches
          ELSE matches' = Append(matches, last'.match)]_vars

C3_Witness ==
    /\ last.kind = "reject"
    /\ NegHit(p.neg, last.highlight)
    /\ Len(matches) > 0

\* C4: Replace with the rule that reproduces the matched text, n = -1,
\* returns the word unchanged as the single element of its result.
C4_RoundTrip ==
    (p.re.wrapped /\ n = -1 /\ pc \in {"done", "slicepanic"}) =>
        (pc = "done" /\ result = <<word>>)

\* The scan with the bound taken away, cut after fuel iterations.
RECURSIVE Scan(_, _, _, _, _)
Scan(pt, w, off, acc, fuel) ==
    IF fuel = 0 THEN acc
    ELSE LET it == FindBody(pt, w, off)
         IN  IF it.kind \notin {"accept", "reject"} THEN acc
             ELSE Scan(pt, w, it.next,
                       IF it.kind = "accept" THEN Append(acc, it.match)
                       ELSE acc, fuel - 1)

Unbounded == Scan(p, word, 0, <<>>, MaxIter)

IsPrefix(s, t) == Len(s) <= Len(t) /\ s = SubSeq(t, 1, Len(s))

\* C5 as stated: a positive n bounds the result to the first n matches of
\* the unbounded scan, and every non-positive n, 0 included, is unbounded.
C5_NonPositiveUnbounded ==
    FindReturned =>
        IF n <= 0 THEN matches = Unbounded
        ELSE /\ Len(matches) <= n
             /\ IsPrefix(matches, Unbounded)
             /\ Len(matches) < n => matches = Unbounded

\* C5 amended: for n >= 0 Find returns the first n matches of the unbounded
\* scan (all of them when there are fewer), so n = 0 returns no match; only
\* a negative n is unbounded.
C5_BoundedPrefix ==
    FindReturned =>
        IF n < 0 THEN matches = Unbounded
        ELSE /\ Len(matches) <= n
             /\ IsPrefix(matches, Unbounded)
             /\ Len(matches) < n => matches = Unbounded

C5_Witness ==
    /\ FindReturned
    /\ n = 0
    /\ matches = <<>>
    /\ Len(Unbounded) > 0

\* C6: an accepted match reports the semantic span: start is the end of the
\* look-behind group when it participated, else the raw start; stop is the
\* start of the look-ahead group when it participated, else the raw end;
\* so rawStart <= start <= stop <= rawEnd and no position of [start, stop)
\* lies in the text of a lookaround group.
C6_SemanticSpan ==
    \A i \in DOMAIN matches :
        LET cd == FirstMatch(p.re, Erased(word, raws[i].at))
            start == matches[i][1]
            stop == matches[i][2]
        IN  /\ start = IF cd.l[2] THEN cd.l[1] ELSE cd.s
            /\ stop = IF cd.r[2] THEN cd.c ELSE cd.r[1]
            /\ cd.s <= start /\ start <= stop /\ stop <= cd.r[1]
            /\ \A x \in start..(stop - 1) :
                  /\ cd.l[2] => ~(cd.s <= x /\ x < cd.l[1])
                  /\ cd.r[2] => ~(cd.c <= x /\ x < cd.r[1])

C6_Witness ==
    \E i \in DOMAIN matches :
        LET cd == FirstMatch(p.re, Erased(word, raws[i].at))
        IN  /\ cd.s < matches[i][1]
            /\ matches[i][1] < matches[i][2]
            /\ matches[i][2] < cd.r[1]

\* The positive regexp's last result was a match with fewer than 10 indices.
ShortMatch == Len(last.m) > 0 /\ Len(last.m) < 10

\* C7 as stated: every match with fewer than 10 submatch indices, whatever
\* its width, makes Find panic.
C7_ShortMatchPanics == ShortMatch => pc = "findpanic"

\* C7 amended: a match of nonzero width with fewer than 10 submatch indices
\* makes Find panic; a zero-width one ends the scan and Find returns.
C7_ShortNonzeroMatchPanics ==
    ShortMatch =>
        IF At(last.m, 1) - At(last.m, 0) = 0
        THEN last.kind = "break" /\ FindReturned
        ELSE pc = "findpanic"

C7_Witness == ShortMatch /\ pc = "findpanic"

\* C8: Replace writes nothing to standard output.
C8_NoConsoleOutput == stdout = <<>>

\* The `<name>` tokens of the expression from position i on, left to right.
RECURSIVE VarTokens(_, _)
VarTokens(e, i) ==
    IF i > Len(e) THEN <<>>
    ELSE IF e[i] = "<" /\ CloseFrom(e, i + 2) # 0
    THEN <<SubSeq(e, i, CloseFrom(e, i + 2))>>
         \o VarTokens(e, CloseFrom(e, i + 2) + 1)
    ELSE VarTokens(e, i + 1)

\* The raw value list of each token, the empty list for an undefined name.
UsedOf(e, t) ==
    [k \in DOMAIN VarTokens(e, 1) |->
        IF Trim(VarTokens(e, 1)[k]) \in DOMAIN t
        THEN t[Trim(VarTokens(e, 1)[k])] ELSE <<>>]

\* C9: expandVars returns the rewritten expression and the list of the raw
\* value lists of the tokens, in order, and NewPattern stores that list as
\* the Pattern's usedVars.
C9_UsedVarsRecorded ==
    /\ vpc \in {"expanded", "compiled"} =>
          Len(ret) = 2 /\ ret[2] = UsedOf(expr, vtab)
    /\ vpc = "compiled" => usedVars = UsedOf(expr, vtab)

\* C10: the cursor never moves back and stays within 0..len(word).
C10_OffsetMonotone ==
    [][offset' >= offset /\ offset' \in 0..Len(word)]_vars

====
